---- MODULE Spec2Model ----
(***************************************************************************)
(* Model of tslumen's profiling orchestration: the ProfilingFunction       *)
(* wrapper, the timeseries validator and the BundledProfiler               *)
(* (src/tslumen/profile/base.py) run through a Scheduler                   *)
(* (src/tslumen/scheduling.py).                                            *)
(*                                                                         *)
(* Python values are encoded as follows.  A name (Series.name, a column    *)
(* label) is a record [t, v]: t is its Python type ("none", "str", "int")  *)
(* and v its str() text.  A dict is a sequence of <<key, value>> pairs in  *)
(* insertion order with unique keys.  None is <<"None">>.  An attribute    *)
(* that was never assigned holds Unset.                                    *)
(***************************************************************************)
EXTENDS Integers, Sequences, FiniteSets, TLC

\* ---------------------------------------------------------------- bounds
MaxClock == 2
MaxCols == 2
MaxTasks == 3

\* ------------------------------------------------------- python encodings
None == <<"None">>
Unset == "<unset>"

NameNone == [t |-> "none", v |-> "None"]
StrName(s) == [t |-> "str", v |-> s]
IntName(s) == [t |-> "int", v |-> s]

\* str(x)
Str(x) == x.v

\* bool(x) for a name: None, "" and 0 are falsy
Truthy(x) == ~(x.t = "none" \/ (x.t = "str" /\ x.v = "") \/ (x.t = "int" /\ x.v = "0"))

\* isinstance(c, str)
IsStr(x) == x.t = "str"

RECURSIVE DictHas(_, _)
DictHas(d, k) == IF d = <<>> THEN FALSE
                 ELSE IF Head(d)[1] = k THEN TRUE ELSE DictHas(Tail(d), k)

RECURSIVE DictGet(_, _)
DictGet(d, k) == IF Head(d)[1] = k THEN Head(d)[2] ELSE DictGet(Tail(d), k)

\* d[k] = v : replaces the value in place when k is present, appends otherwise
DictSet(d, k, v) ==
    IF DictHas(d, k)
    THEN [i \in 1..Len(d) |-> IF d[i][1] = k THEN <<k, v>> ELSE d[i]]
    ELSE Append(d, <<k, v>>)

\* list(d.keys())
DictKeys(d) == [i \in 1..Len(d) |-> d[i][1]]

KeySet(d) == {d[i][1] : i \in 1..Len(d)}

RECURSIVE DictUpdate(_, _)
\* for k, v in src.items(): d[k] = v
DictUpdate(d, src) == IF src = <<>> THEN d
                      ELSE DictUpdate(DictSet(d, Head(src)[1], Head(src)[2]), Tail(src))

\* ------------------------------------------------------------------ clock
\* datetime.now(): the value of the wall clock, which only moves forward
NoTime == 0 - 1

\* --------------------------------------------------- profiling functions
\* Declarations of wrapped functions: name, name of the first parameter,
\* the types its annotation lists, and the remaining parameters with their
\* declared defaults.
ft_entropy == [name |-> "ft_entropy", data |-> "data", types |-> {"Series"},
               rest |-> << <<"sampling_frequency", "1.0">>, <<"n_per_segment", "None">> >>]
binned == [name |-> "binned", data |-> "data", types |-> {"Series"},
           rest |-> << <<"nbins", "None">> >>]
corr_pearson == [name |-> "corr_pearson", data |-> "data", types |-> {"DataFrame"},
                 rest |-> <<>>]
freq == [name |-> "freq", data |-> "data", types |-> {"Series", "DataFrame"},
         rest |-> <<>>]

\* a wrapper that also puts the first parameter into the config schema
ProfilingFunction_init_with_data(fn) ==
    [name |-> fn.name,
     par_data |-> fn.data,
     is_pseries |-> "Series" \in fn.types,
     is_pframe |-> "DataFrame" \in fn.types,
     sig |-> <<fn.data>> \o DictKeys(fn.rest),
     defaults |-> fn.rest,
     config |-> << <<fn.data, "None">> >> \o fn.rest]

\* ProfilingFunction.__init__ : the descriptor built from a declaration.
\* config is the schema of the generated Config dataclass: one field per
\* parameter after the first, with the parameter's default.
ProfilingFunction_init(fn) ==
    [name |-> fn.name,
     par_data |-> fn.data,
     is_pseries |-> "Series" \in fn.types,
     is_pframe |-> "DataFrame" \in fn.types,
     sig |-> <<fn.data>> \o DictKeys(fn.rest),
     defaults |-> fn.rest,
     config |-> [i \in 1..Len(fn.rest) |-> fn.rest[i]]]

\* Exception classes a wrapped function may raise.  KeyboardInterrupt and
\* ProfileException derive from BaseException only.
ExceptionClasses == {"ZeroDivisionError", "TypeError", "AttributeError", "ValueError"}
BaseOnlyClasses == {"KeyboardInterrupt", "ProfileException"}
IsException(e) == e \in ExceptionClasses

\* what the caller hands to the wrapper as data
Series(n) == [kind |-> "series", name |-> n, cols |-> <<>>]
Frame(cs) == [kind |-> "frame", name |-> NameNone, cols |-> cs]
Other == [kind |-> "other", name |-> NameNone, cols |-> <<>>]

\* isinstance(data, pd.DataFrame)
IsDataFrame(data) == data.kind = "frame"

\* getattr(data, "name", "")
GetAttrName(data) == IF data.kind = "series" THEN data.name ELSE StrName("")

\* the arguments the wrapped function runs with: keyword arguments, and the
\* declared default for every parameter that was not passed
EffectiveArgs(p, kwargs) ==
    [i \in 1..Len(p.defaults) |->
        IF DictHas(kwargs, p.defaults[i][1])
        THEN <<p.defaults[i][1], DictGet(kwargs, p.defaults[i][1])>>
        ELSE p.defaults[i]]

\* the value a wrapped function returns: determined by the function, the
\* data and the arguments it ran with
Payload(p, data, kwargs) == <<"payload", p.name, data, EffectiveArgs(p, kwargs)>>
UnsetVal == <<Unset>>

\* ProfileResult.__init__ : only warnings, exception and success are set
ProfileResult_init ==
    [name |-> Unset, scope |-> Unset, target |-> Unset,
     start |-> NoTime, end |-> NoTime,
     success |-> TRUE, warnings |-> <<>>, exception |-> None,
     result |-> UnsetVal]

\* __call__, lines 159-162
Call_Enter(p, t) ==
    [ProfileResult_init EXCEPT !.start = t, !.name = p.name, !.warnings = <<>>]

\* self.sig.bind(*args, **kwargs) succeeds
BindOK(p, args, kwargs) ==
    /\ Len(args) >= 1
    /\ Len(args) <= Len(p.sig)
    /\ \A k \in KeySet(kwargs) :
          \E i \in (Len(args) + 1)..Len(p.sig) : p.sig[i] = k

\* __call__, lines 165-167
Call_Derive(pr, data) ==
    LET scope == IF IsDataFrame(data) THEN "frame" ELSE "series"
        nm == GetAttrName(data)
    IN [pr EXCEPT !.scope = scope,
                  !.target = IF scope = "series"
                             THEN (IF Truthy(nm) THEN Str(nm) ELSE "")
                             ELSE ""]

\* What "with warnings.catch_warnings(record=True) as w" (line 168) holds
\* of the warnings emitted inside the block.  The block installs no filter
\* of its own, so the interpreter's default filters decide: a warning of a
\* category that is ignored by default ("dep", a DeprecationWarning raised
\* in library code) is dropped, and of the warnings with one text, category
\* and location (equal entries of emitted) only the first is recorded.
Recorded(emitted) ==
    LET kept == {i \in 1..Len(emitted) :
                    emitted[i] # "dep" /\ \A j \in 1..(i - 1) : emitted[j] # emitted[i]}
    IN [k \in 1..Cardinality(kept) |->
           emitted[CHOOSE i \in kept : Cardinality({j \in kept : j <= i}) = k]]

\* __call__, lines 169-171
Call_Return(pr, value, w) ==
    [pr EXCEPT !.result = value, !.success = TRUE, !.warnings = pr.warnings \o w]

\* a handler that forgets to clear the success flag
Call_Except_keeps_success(pr, e) ==
    [pr EXCEPT !.result = None, !.exception = <<"ProfileException", e>>]

\* __call__, lines 172-175
Call_Except(pr, e) ==
    [pr EXCEPT !.result = None, !.success = FALSE,
               !.exception = <<"ProfileException", e>>]

\* end stamped at the end of the try body instead of in a finally block
Call_Finally_success_only(pr, t) == IF pr.success THEN [pr EXCEPT !.end = t] ELSE pr

\* __call__, lines 176-177
Call_Finally(pr, t) == [pr EXCEPT !.end = t]

\* a handler written as "except ValueError"
Call_Catches_ValueError(e) == e = "ValueError"

\* Whether an exception in flight is handled by "except Exception"
Call_Catches(e) == IsException(e)

\* ProfilingFunction.__call__ as one step: out is what the wrapped function
\* does when it is reached, t0 and t1 are the clock readings at entry and in
\* the finally block.  [raised] is the exception that leaves the call, None
\* when the call returns [ret].
ProfilingFunction_call(p, args, kwargs, out, t0, t1) ==
    LET r0 == Call_Enter(p, t0) IN
    IF ~BindOK(p, args, kwargs)
    THEN IF Call_Catches("TypeError")
         THEN [raised |-> None, ret |-> Call_Finally(Call_Except(r0, "TypeError"), t1)]
         ELSE [raised |-> <<"TypeError">>, ret |-> Call_Finally(r0, t1)]
    ELSE LET r1 == Call_Derive(r0, args[1]) IN
         IF out.kind = "return"
         THEN [raised |-> None,
               ret |-> Call_Finally(Call_Return(r1, Payload(p, args[1], kwargs),
                                                Recorded(out.w)), t1)]
         ELSE IF Call_Catches(out.exc)
         THEN [raised |-> None, ret |-> Call_Finally(Call_Except(r1, out.exc), t1)]
         ELSE [raised |-> <<out.exc>>, ret |-> Call_Finally(r1, t1)]

\* ------------------------------------------------------------- tables
\* A table: whether it is a pandas DataFrame at all, its columns in order
\* (label and whether the dtype is numeric), its row index (one timestamp
\* per row) and whether that index is a DatetimeIndex.
RECURSIVE KeepIn(_, _)
KeepIn(s, keep) ==
    IF s = <<>> THEN <<>>
    ELSE IF Head(s) \in keep THEN <<Head(s)>> \o KeepIn(Tail(s), keep)
    ELSE KeepIn(Tail(s), keep)

RECURSIVE Insert(_, _)
Insert(x, s) == IF s = <<>> THEN <<x>>
                ELSE IF x < Head(s) THEN <<x>> \o s
                ELSE <<Head(s)>> \o Insert(x, Tail(s))

RECURSIVE SortIndex(_)
\* sort_index(): rows in ascending index order
SortIndex(s) == IF s = <<>> THEN <<>> ELSE Insert(Head(s), SortIndex(Tail(s)))

\* df.select_dtypes("number")
SelectNumeric(cols) == KeepIn(cols, {c \in {cols[i] : i \in 1..Len(cols)} : c.numeric})

\* index.inferred_freq is not None: at least three timestamps, evenly spaced
InferredFreq(idx) ==
    /\ Len(idx) >= 3
    /\ idx[2] > idx[1]
    /\ \A i \in 2..(Len(idx) - 1) : idx[i + 1] - idx[i] = idx[2] - idx[1]

\* a validator that looks at the column names after the non-numeric
\* columns are gone
valid_timeseries_names_after_select(t) ==
    LET bad == [ok |-> FALSE, df |-> t]
        df == [t EXCEPT !.columns = SelectNumeric(t.columns), !.index = SortIndex(t.index)]
    IN IF ~t.isframe THEN bad
       ELSE IF ~(\A i \in 1..Len(df.columns) : IsStr(df.columns[i].name)) THEN bad
       ELSE IF Len(df.columns) = 0 \/ Len(df.index) = 0 THEN bad
       ELSE IF ~df.dtindex THEN bad
       ELSE IF ~InferredFreq(df.index) THEN bad
       ELSE [ok |-> TRUE, df |-> df]

\* valid_timeseries: [ok |-> FALSE] stands for the ValueError it raises
valid_timeseries(t) ==
    LET bad == [ok |-> FALSE, df |-> t]
        df == [t EXCEPT !.columns = SelectNumeric(t.columns), !.index = SortIndex(t.index)]
    IN IF ~t.isframe THEN bad
       ELSE IF ~(\A i \in 1..Len(t.columns) : IsStr(t.columns[i].name)) THEN bad
       ELSE IF Len(df.columns) = 0 \/ Len(df.index) = 0 THEN bad
       ELSE IF ~df.dtindex THEN bad
       ELSE IF ~InferredFreq(df.index) THEN bad
       ELSE [ok |-> TRUE, df |-> df]

\* df.columns : the column labels in order
Columns(df) == [i \in 1..Len(df.columns) |-> df.columns[i].name]

\* df[column] : a Series when exactly one column carries the label, a
\* DataFrame of all the columns carrying it otherwise
GetItem(df, column) ==
    LET hits == KeepIn(df.columns, {c \in {df.columns[i] : i \in 1..Len(df.columns)} :
                                           c.name = column})
    IN IF Len(hits) = 1 THEN Series(column) ELSE Frame(hits)

\* --------------------------------------------------------- BundledProfiler
\* the targets get_profilers knows, lines 217-221
ValidTargets == {"series", "frame", "any"}

\* a "frame" clause that leaves out the profilers declared for both
Clause_exclusive(target, p) ==
    CASE target = "series" -> p.is_pseries
      [] target = "frame" -> p.is_pframe /\ ~p.is_pseries
      [] target = "any" -> TRUE

\* valid[target], lines 217-223
Clause(target, p) ==
    CASE target = "series" -> p.is_pseries
      [] target = "frame" -> p.is_pframe
      [] target = "any" -> TRUE

RECURSIVE FilterProfilers(_, _)
FilterProfilers(ps, target) ==
    IF ps = <<>> THEN <<>>
    ELSE LET p == Head(ps)
         IN (IF Clause(target, p) THEN << <<p.name, p>> >> ELSE <<>>)
            \o FilterProfilers(Tail(ps), target)

\* get_profilers(target): name => descriptor, in declaration order
get_profilers(ps, target) == DictUpdate(<<>>, FilterProfilers(ps, target))

\* get_profilers as the client calls it: the assert of line 222 comes first
get_profilers_call(ps, target) ==
    IF target \notin ValidTargets
    THEN [raised |-> <<"AssertionError">>, ret |-> <<>>]
    ELSE [raised |-> None, ret |-> get_profilers(ps, target)]

\* get_config_defaults(): name => asdict(p.config())
get_config_defaults(ps) ==
    LET d == get_profilers(ps, "any")
    IN [i \in 1..Len(d) |-> <<d[i][1], d[i][2].config>>]

\* asdict(cfg) if is_dataclass(cfg) else cfg
AsPlainDict(cfg) == cfg.items

\* BundledProfiler.__init__: the instance config
BundledProfiler_init(ps, config) ==
    IF config.given /\ config.items # <<>>
    THEN DictUpdate(get_config_defaults(ps),
                    [i \in 1..Len(config.items) |->
                        <<config.items[i][1], AsPlainDict(config.items[i][2])>>])
    ELSE get_config_defaults(ps)

\* series units that forget the loop over the columns
SeriesUnits_first_column(ps, df, config) ==
    LET sp == get_profilers(ps, "series")
        cols == Columns(df)
    IN [k \in 1..Len(sp) |->
           [fn |-> sp[k][2], data |-> GetItem(df, cols[1]), config |-> DictGet(config, sp[k][1])]]

\* plan, lines 300-306: frame units first, then series units, profiler-major
SeriesUnits(ps, df, config) ==
    LET sp == get_profilers(ps, "series")
        cols == Columns(df)
        n == Len(cols)
    IN [k \in 1..(Len(sp) * n) |->
           LET i == ((k - 1) \div n) + 1
               j == ((k - 1) % n) + 1
           IN [fn |-> sp[i][2], data |-> GetItem(df, cols[j]), config |-> DictGet(config, sp[i][1])]]

\* a plan that also makes a frame unit for every configured name that is
\* not a bundled profiler
Plan_every_config_key(ps, df, config) ==
    LET fp == get_profilers(ps, "frame")
        extra == SelectSeq(config, LAMBDA it : ~DictHas(get_profilers(ps, "any"), it[1]))
    IN [i \in 1..Len(fp) |->
           [fn |-> fp[i][2], data |-> Frame(df.columns), config |-> DictGet(config, fp[i][1])]]
       \o [i \in 1..Len(extra) |->
           [fn |-> ProfilingFunction_init([name |-> extra[i][1], data |-> "data",
                                           types |-> {"DataFrame"}, rest |-> <<>>]),
            data |-> Frame(df.columns), config |-> <<>>]]
       \o SeriesUnits(ps, df, config)

Plan(ps, df, config) ==
    LET fp == get_profilers(ps, "frame")
    IN [i \in 1..Len(fp) |->
           [fn |-> fp[i][2], data |-> Frame(df.columns), config |-> DictGet(config, fp[i][1])]]
       \o SeriesUnits(ps, df, config)

\* _run, lines 272-286: [raised] is the exception that leaves _run
Run(unit, out, t0, t1) ==
    LET r == ProfilingFunction_call(unit.fn, <<unit.data>>, unit.config, out, t0, t1)
        pr == r.ret
    IN IF r.raised # None THEN [raised |-> r.raised, ret |-> <<>>]
       ELSE IF pr.scope = Unset \/ pr.target = Unset
       THEN [raised |-> <<"AttributeError">>, ret |-> <<>>]
       ELSE [raised |-> None,
             ret |-> <<pr.name, pr.result,
                       [Profiler |-> pr.name, Scope |-> pr.scope, Target |-> pr.target,
                        Start |-> pr.start, End |-> pr.end, Duration |-> pr.end - pr.start,
                        Succeeded |-> pr.success, Exceptions |-> pr.exception,
                        Runs |-> 1]>>]

\* {col: {} for col in df.columns}; the labels of a validated table are
\* Python strings, and a dict key that is a string is encoded as its text
EmptySeries(cols) == DictUpdate(<<>>, [i \in 1..Len(cols) |-> <<cols[i].v, <<>> >>])

\* lines 308-313, one iteration: [ok |-> FALSE] stands for the KeyError of
\* result.result.series[stats.Target]
CollectOne(acc, triple) ==
    LET name == triple[1]
        res == triple[2]
        stats == triple[3]
    IN IF ~acc.ok THEN acc
       ELSE IF stats.Scope = "frame"
       THEN [acc EXCEPT !.frame = DictSet(acc.frame, name, res),
                        !.exec_stats = Append(acc.exec_stats, stats)]
       ELSE IF ~DictHas(acc.series, stats.Target) THEN [acc EXCEPT !.ok = FALSE]
       ELSE [acc EXCEPT !.series = DictSet(acc.series, stats.Target,
                                           DictSet(DictGet(acc.series, stats.Target), name, res)),
                        !.exec_stats = Append(acc.exec_stats, stats)]

RECURSIVE CollectAll(_, _)
CollectAll(acc, executed) ==
    IF executed = <<>> THEN acc
    ELSE CollectAll(CollectOne(acc, Head(executed)), Tail(executed))

\* ----------------------------------------------- wrapping a function
\* A function as the decorator sees it through inspect.signature: its name
\* and its parameters in order, each with its annotation and its default.
\* An annotation is absent (Parameter.empty, a class), None, or names types.
Empty == [kind |-> "empty", types |-> {}]
AnnNone == [kind |-> "none", types |-> {}]
Annotated(ts) == [kind |-> "type", types |-> ts]
Param(n, a, d) == [name |-> n, annotation |-> a, default |-> d]

\* bool(par.annotation): Parameter.empty and every type are truthy objects
AnnotationTruthy(a) == a.kind # "none"

\* get_args(annotation) if is_union_type(annotation) else [annotation]
DataTypes(a) == a.types

\* ProfilingFunction.__init__ with its asserts, lines 136-156: [raised] is
\* the AssertionError that leaves the decorator, None when wrapping succeeds
ProfilingFunction_wrap(fn) ==
    LET ps == fn.params
        fail == [raised |-> <<"AssertionError">>, ret |-> <<>>]
    IN IF ~(Len(ps) >= 1) THEN fail
       ELSE IF \E i \in 1..Len(ps) : ~AnnotationTruthy(ps[i].annotation) THEN fail
       ELSE IF ~("Series" \in DataTypes(ps[1].annotation)
                 \/ "DataFrame" \in DataTypes(ps[1].annotation)) THEN fail
       ELSE [raised |-> None,
             ret |-> ProfilingFunction_init(
                        [name |-> fn.name, data |-> ps[1].name,
                         types |-> DataTypes(ps[1].annotation),
                         rest |-> [i \in 1..(Len(ps) - 1) |->
                                      <<ps[i + 1].name, ps[i + 1].default>>]])]

\* ------------------------------------------------------------ Scheduler
\* A task of scheduler.run: not yet dispatched, running, or finished with
\* the value its call returned.
TaskPending == [st |-> "pending", val |-> 0]
TaskRunning == [st |-> "running", val |-> 0]
TaskDone(v) == [st |-> "done", val |-> v]

\* a result list assembled in the order the tasks finished
Parallel_results_completion_order(tasks, order) ==
    [k \in 1..Len(order) |-> tasks[order[k]].val]

\* the list Parallel.__call__ returns, lines 72-75: one value per task, in
\* the order the tasks were submitted
Parallel_results(tasks, order) == [i \in 1..Len(tasks) |-> tasks[i].val]

\* --------------------------------------- ProfileResult as a mapping
\* the dataclass fields in declaration order, lines 94-102
Fields == <<"name", "scope", "target", "start", "end", "success", "warnings",
            "exception", "result">>

\* A result object the caller holds is [cls, obj]: its class and its
\* attributes.  Whether the attribute was ever assigned:
IsSet(r, k) ==
    CASE k = "name" -> r.obj.name # Unset
      [] k = "scope" -> r.obj.scope # Unset
      [] k = "target" -> r.obj.target # Unset
      [] k = "start" -> r.obj.start # NoTime
      [] k = "end" -> r.obj.end # NoTime
      [] k = "result" -> r.cls = "BundledResult" \/ r.obj.result # UnsetVal
      [] OTHER -> TRUE

\* getattr(self, k): AttributeError for an attribute never assigned
GetAttr(r, k) ==
    IF ~IsSet(r, k) THEN [raised |-> <<"AttributeError">>, val |-> <<>>]
    ELSE [raised |-> None,
          val |-> CASE k = "name" -> r.obj.name
                    [] k = "scope" -> r.obj.scope
                    [] k = "target" -> r.obj.target
                    [] k = "start" -> r.obj.start
                    [] k = "end" -> r.obj.end
                    [] k = "success" -> r.obj.success
                    [] k = "warnings" -> r.obj.warnings
                    [] k = "exception" -> r.obj.exception
                    [] k = "result" -> r.obj.result]

\* ProfileResult.__bool__, lines 109-110
ProfileResult_bool(r) == r.obj.success

\* _DCDict.__getitem__, lines 76-77
DCDict_getitem(r, k) == GetAttr(r, k)

\* What dataclasses.asdict does to the value of a field: a nested dataclass
\* becomes a dict, every other value is deep-copied.  A copy of a str, bool,
\* datetime or None equals the original ("equal"); a copy of an exception
\* or of a WarningMessage is another object and these compare by identity
\* ("copy"); the BundledResultDetails of a BundledResult comes out as a
\* dict, which equals no dataclass instance ("dict").
AsDictHow(r, k) ==
    CASE k = "exception" -> IF r.obj.exception = None THEN "equal" ELSE "copy"
      [] k = "warnings" -> IF r.obj.warnings = <<>> THEN "equal" ELSE "copy"
      [] k = "result" -> IF r.cls = "BundledResult" THEN "dict" ELSE "equal"
      [] OTHER -> "equal"

\* _DCDict.__iter__, lines 73-74: iter(asdict(self).items()); asdict reads
\* every field with getattr.  An item is the key, the attribute value it
\* was made from (val), and what asdict did to that value (how).
DCDict_iter(r) ==
    IF \E i \in 1..Len(Fields) : ~IsSet(r, Fields[i])
    THEN [raised |-> <<"AttributeError">>, items |-> <<>>]
    ELSE [raised |-> None,
          items |-> [i \in 1..Len(Fields) |->
                        [key |-> Fields[i],
                         val |-> GetAttr(r, Fields[i]).val,
                         how |-> AsDictHow(r, Fields[i])]]]

\* ------------------------------------------------------------ the state
VARIABLES
    now,        \* the wall clock read by datetime.now()
    \* one direct call of a ProfilingFunction
    c_pc,       \* position inside __call__
    c_fn,       \* the descriptor being called (self)
    c_args,     \* positional arguments of the call
    c_kwargs,   \* keyword arguments of the call
    c_pr,       \* the ProfileResult being filled in
    c_exc,      \* the exception raised inside the try block, NoExc when none
    c_caught,   \* whether "except Exception" took c_exc
    c_fnrun,    \* what the wrapped function did: "no", "running", "return", "raise"
    c_emitted,  \* warnings emitted while the wrapped function ran
    c_t0,       \* clock when the wrapped function was invoked
    c_t1        \* clock when the wrapped function finished

callvars == <<c_pc, c_fn, c_args, c_kwargs, c_pr, c_exc, c_caught, c_fnrun, c_emitted, c_t0, c_t1>>

NoExc == ""
NoFn == ProfilingFunction_init([name |-> "", data |-> "", types |-> {}, rest |-> <<>>])

\* the wrapped functions of the model
Profilers == {ProfilingFunction_init(ft_entropy), ProfilingFunction_init(binned),
              ProfilingFunction_init(corr_pearson), ProfilingFunction_init(freq)}

\* inputs of a direct call
CallSeriesNames == {NameNone, StrName(""), StrName("alpha"), IntName("0"), IntName("7")}
CallData == {Series(n) : n \in CallSeriesNames} \cup {Frame(<<>>), Other}
CallArgs == {<<>>} \cup {<<d>> : d \in CallData}
CallKwargs == {<<>>, << <<"n_per_segment", "9">> >>, << <<"bogus", "9">> >>}
\* what the wrapped function emits: two warnings from two places, one
\* warning emitted twice from one place, a DeprecationWarning and a warning
WarningLists == {<<>>, <<"w1">>, <<"w1", "w2">>, <<"w1", "w1">>, <<"dep", "w1">>}
FnOutcomes == [kind : {"return"}, exc : {NoExc}, w : WarningLists]
              \cup [kind : {"raise"}, exc : {"ZeroDivisionError", "KeyboardInterrupt"},
                    w : WarningLists]

CallInit ==
    /\ c_pc = "idle"
    /\ c_fn = NoFn
    /\ c_args = <<>>
    /\ c_kwargs = <<>>
    /\ c_pr = ProfileResult_init
    /\ c_exc = NoExc
    /\ c_caught = FALSE
    /\ c_fnrun = "no"
    /\ c_emitted = <<>>
    /\ c_t0 = NoTime
    /\ c_t1 = NoTime

\* time passes
Tick ==
    /\ now < MaxClock
    /\ now' = now + 1

\* __call__ is entered: lines 159-162
CallEnter(p, args, kwargs) ==
    /\ c_pc = "idle"
    /\ c_pc' = "try"
    /\ c_fn' = p
    /\ c_args' = args
    /\ c_kwargs' = kwargs
    /\ c_pr' = Call_Enter(p, now)
    /\ UNCHANGED <<c_exc, c_caught, c_fnrun, c_emitted, c_t0, c_t1>>

\* lines 164-167: bind the arguments, derive scope and target
CallBind ==
    /\ c_pc = "try"
    /\ IF BindOK(c_fn, c_args, c_kwargs)
       THEN /\ c_pr' = Call_Derive(c_pr, c_args[1])
            /\ c_pc' = "with"
            /\ c_exc' = c_exc
       ELSE /\ c_exc' = "TypeError"
            /\ c_pc' = "handle"
            /\ c_pr' = c_pr
    /\ UNCHANGED <<c_fn, c_args, c_kwargs, c_caught, c_fnrun, c_emitted, c_t0, c_t1>>

\* line 169: the wrapped function is invoked
FnBegin ==
    /\ c_pc = "with"
    /\ c_pc' = "running"
    /\ c_fnrun' = "running"
    /\ c_t0' = now
    /\ UNCHANGED <<c_fn, c_args, c_kwargs, c_pr, c_exc, c_caught, c_emitted, c_t1>>

\* lines 169-171: the wrapped function finishes, normally or not
FnEnd(out) ==
    /\ c_pc = "running"
    /\ c_t1' = now
    /\ c_fnrun' = out.kind
    /\ c_emitted' = out.w
    /\ IF out.kind = "return"
       THEN /\ c_pr' = Call_Return(c_pr, Payload(c_fn, c_args[1], c_kwargs),
                                    Recorded(out.w))
            /\ c_pc' = "finally"
            /\ c_exc' = c_exc
       ELSE /\ c_exc' = out.exc
            /\ c_pc' = "handle"
            /\ c_pr' = c_pr
    /\ UNCHANGED <<c_fn, c_args, c_kwargs, c_caught, c_t0>>

\* lines 172-175: "except Exception" either takes the exception or lets it pass
CallHandle ==
    /\ c_pc = "handle"
    /\ c_pc' = "finally"
    /\ IF Call_Catches(c_exc)
       THEN /\ c_pr' = Call_Except(c_pr, c_exc)
            /\ c_caught' = TRUE
       ELSE UNCHANGED <<c_pr, c_caught>>
    /\ UNCHANGED <<c_fn, c_args, c_kwargs, c_exc, c_fnrun, c_emitted, c_t0, c_t1>>

\* lines 176-178: stamp end, then return the result or let the exception out
CallFinally ==
    /\ c_pc = "finally"
    /\ c_pr' = Call_Finally(c_pr, now)
    /\ c_pc' = IF c_exc = NoExc \/ c_caught THEN "returned" ELSE "raised"
    /\ UNCHANGED <<c_fn, c_args, c_kwargs, c_exc, c_caught, c_fnrun, c_emitted, c_t0, c_t1>>

\* the caller is done with the outcome; the next call starts afresh
CallReset ==
    /\ c_pc \in {"returned", "raised"}
    /\ c_pc' = "idle"
    /\ c_fn' = NoFn
    /\ c_args' = <<>>
    /\ c_kwargs' = <<>>
    /\ c_pr' = ProfileResult_init
    /\ c_exc' = NoExc
    /\ c_caught' = FALSE
    /\ c_fnrun' = "no"
    /\ c_emitted' = <<>>
    /\ c_t0' = NoTime
    /\ c_t1' = NoTime

\* ----------------------------------------------- BundledProfiler state
VARIABLES
    p_pc,       \* "new", "idle", "dispatching", "done", "raised"
    cls,        \* name of the BundledProfiler subclass that was instantiated
    profilers,  \* its _profilers list
    override,   \* the config argument as the constructor was given it
    caller_cfg, \* the caller's mapping object that was passed as config, as it is now
    config,     \* self.config
    df,         \* the validated table inside profile()
    plan,       \* the execution units handed to the scheduler
    executed,   \* per unit: what _run returned, Pending until it has run
    invoked,    \* per unit: what each call of its wrapper was given to do, in order
    result,     \* the BundledResult being built and returned
    p_exc       \* the exception that left the constructor or profile()

bundlevars == <<p_pc, cls, profilers, override, caller_cfg, config, df, plan, executed,
                invoked, result, p_exc>>

Pending == <<"pending">>
NoTable == [isframe |-> FALSE, columns |-> <<>>, index |-> <<>>, dtindex |-> FALSE]
NoOverride == [given |-> FALSE, items |-> <<>>]
NoDetails == [frame |-> <<>>, series |-> <<>>, exec_details |-> <<>>, config |-> <<>>]
NoResult == [name |-> Unset, scope |-> Unset, target |-> Unset,
             start |-> NoTime, end |-> NoTime, success |-> TRUE, warnings |-> <<>>,
             exception |-> None, result |-> NoDetails]

\* BundledProfiler subclasses: class name and _profilers
Bundles ==
    {[cls |-> "DummyA", profilers |-> <<>>],
     [cls |-> "DummyB",
      profilers |-> <<ProfilingFunction_init(ft_entropy), ProfilingFunction_init(corr_pearson)>>],
     [cls |-> "DummyC",
      profilers |-> <<ProfilingFunction_init(binned), ProfilingFunction_init(ft_entropy)>>],
     [cls |-> "DummyD", profilers |-> <<ProfilingFunction_init(freq)>>]}

\* config arguments of the constructor: a plain dict per profiler name, or a
\* Config dataclass instance (which asdict turns into all of its fields)
PlainDict(d) == [dc |-> FALSE, items |-> d]
EntropyOverrides ==
    {PlainDict(<< <<"n_per_segment", "9">> >>),
     PlainDict(<< <<"sampling_frequency", "2.0">>, <<"n_per_segment", "9">> >>),
     PlainDict(<< <<"bogus", "9">> >>),
     [dc |-> TRUE, items |-> << <<"sampling_frequency", "2.0">>, <<"n_per_segment", "None">> >>]}
OptionalItem(k, vs) == {<<>>} \cup {<< <<k, v>> >> : v \in vs}
Overrides ==
    {NoOverride} \cup
    {[given |-> TRUE, items |-> a \o c] :
        a \in OptionalItem("ft_entropy", EntropyOverrides),
        c \in OptionalItem("nosuch", {PlainDict(<< <<"x", "1">> >>)})}

\* tables a caller may pass to profile()
ColumnUniverse ==
    {[name |-> StrName("a"), numeric |-> TRUE], [name |-> StrName("b"), numeric |-> TRUE],
     [name |-> StrName("c"), numeric |-> FALSE], [name |-> IntName("0"), numeric |-> TRUE],
     [name |-> IntName("1"), numeric |-> FALSE]}
ColumnLists == UNION {[1..n -> ColumnUniverse] : n \in 0..MaxCols}
Indexes == {<<1, 2, 3>>, <<3, 1, 2>>, <<1, 2, 4>>, <<>>}
InputTables == [isframe : BOOLEAN, columns : ColumnLists, index : Indexes, dtindex : BOOLEAN]

\* what a wrapped function does when a unit reaches it
UnitOutcomes == [kind : {"return"}, exc : {NoExc}, w : {<<>>}]
                \cup [kind : {"raise"}, exc : {"ZeroDivisionError", "KeyboardInterrupt"},
                      w : {<<>>}]

BundleInit ==
    /\ p_pc = "new"
    /\ cls = ""
    /\ profilers = <<>>
    /\ override = NoOverride
    /\ caller_cfg = NoOverride
    /\ config = <<>>
    /\ df = NoTable
    /\ plan = <<>>
    /\ executed = <<>>
    /\ invoked = <<>>
    /\ result = NoResult
    /\ p_exc = None

\* BundledProfiler.__init__ of subclass b with config argument cfg
Construct(b, cfg) ==
    /\ p_pc = "new"
    /\ p_pc' = "idle"
    /\ cls' = b.cls
    /\ profilers' = b.profilers
    /\ override' = cfg
    /\ caller_cfg' = cfg
    /\ config' = BundledProfiler_init(b.profilers, cfg)
    /\ UNCHANGED <<df, plan, executed, invoked, result, p_exc>>

\* line 256 stores cfg itself when it is a plain dict, and a new dict made
\* by asdict when it is a dataclass instance
StoredByReference(cfg) == ~cfg.dc

\* Between two profile() calls the caller writes to the mapping it passed
\* to the constructor: o[p][k] = v (setattr(o[p], k, v) for a dataclass
\* instance).  self.config[p] is the same object as o[p] when line 256
\* stored it by reference.
MutateOverride(p, k, v) ==
    /\ p_pc = "idle"
    /\ caller_cfg.given
    /\ DictHas(caller_cfg.items, p)
    /\ LET old == DictGet(caller_cfg.items, p)
           new == [old EXCEPT !.items = DictSet(old.items, k, v)]
       IN /\ new # old
          /\ caller_cfg' = [caller_cfg EXCEPT !.items = DictSet(caller_cfg.items, p, new)]
          /\ config' = IF StoredByReference(old) THEN DictSet(config, p, new.items)
                       ELSE config
    /\ UNCHANGED <<p_pc, cls, profilers, override, df, plan, executed, invoked, result, p_exc>>

\* a profile() that starts the result before it validates the table
ProfileBegin_validates_late(t) ==
    /\ p_pc = "idle"
    /\ LET v == valid_timeseries(t) IN
       IF ~v.ok
       THEN /\ p_pc' = "raised"
            /\ p_exc' = <<"ValueError">>
            /\ result' = [NoResult EXCEPT !.start = now, !.name = cls, !.scope = "both",
                                          !.target = ""]
            /\ UNCHANGED <<df, plan, executed, invoked>>
       ELSE LET units == Plan(profilers, v.df, config) IN
            /\ p_pc' = "dispatching"
            /\ df' = v.df
            /\ result' = [NoResult EXCEPT
                            !.start = now, !.name = cls, !.scope = "both", !.target = "",
                            !.result = [NoDetails EXCEPT
                                           !.config = config,
                                           !.series = EmptySeries(Columns(v.df))]]
            /\ plan' = units
            /\ executed' = [i \in 1..Len(units) |-> Pending]
            /\ invoked' = [i \in 1..Len(units) |-> <<>>]
            /\ p_exc' = p_exc
    /\ UNCHANGED <<cls, profilers, override, caller_cfg, config>>

\* profile(df), lines 288-306: validate, start the result, build the plan
ProfileBegin(t) ==
    /\ p_pc = "idle"
    /\ LET v == valid_timeseries(t) IN
       IF ~v.ok
       THEN /\ p_pc' = "raised"
            /\ p_exc' = <<"ValueError">>
            /\ UNCHANGED <<df, plan, executed, invoked, result>>
       ELSE LET units == Plan(profilers, v.df, config) IN
            /\ p_pc' = "dispatching"
            /\ df' = v.df
            /\ result' = [NoResult EXCEPT
                            !.start = now, !.name = cls, !.scope = "both", !.target = "",
                            !.result = [NoDetails EXCEPT
                                           !.config = config,
                                           !.series = EmptySeries(Columns(v.df))]]
            /\ plan' = units
            /\ executed' = [i \in 1..Len(units) |-> Pending]
            /\ invoked' = [i \in 1..Len(units) |-> <<>>]
            /\ p_exc' = p_exc
    /\ UNCHANGED <<cls, profilers, override, caller_cfg, config>>

\* a worker that puts its payload into the result itself
RunUnit_writes_result(i, out) ==
    /\ p_pc = "dispatching"
    /\ i \in 1..Len(plan)
    /\ executed[i] = Pending
    /\ invoked' = [invoked EXCEPT ![i] = Append(@, out.kind)]
    /\ LET r == Run(plan[i], out, now, now) IN
       IF r.raised # None
       THEN /\ p_pc' = "raised"
            /\ p_exc' = r.raised
            /\ executed' = executed
            /\ result' = result
       ELSE /\ executed' = [executed EXCEPT ![i] = r.ret]
            /\ result' = [result EXCEPT !.result.exec_details = Append(@, r.ret[3])]
            /\ UNCHANGED <<p_pc, p_exc>>
    /\ UNCHANGED <<cls, profilers, override, caller_cfg, config, df, plan>>

\* scheduler.run, line 307: a worker executes _run on a unit that has not
\* run yet; an exception leaving _run leaves scheduler.run and profile()
RunUnit(i, out) ==
    /\ p_pc = "dispatching"
    /\ i \in 1..Len(plan)
    /\ executed[i] = Pending
    /\ invoked' = [invoked EXCEPT ![i] = Append(@, out.kind)]
    /\ LET r == Run(plan[i], out, now, now) IN
       IF r.raised # None
       THEN /\ p_pc' = "raised"
            /\ p_exc' = r.raised
            /\ executed' = executed
       ELSE /\ executed' = [executed EXCEPT ![i] = r.ret]
            /\ UNCHANGED <<p_pc, p_exc>>
    /\ UNCHANGED <<cls, profilers, override, caller_cfg, config, df, plan, result>>

\* lines 308-316: scheduler.run has returned the list; collect and return
Collect ==
    /\ p_pc = "dispatching"
    /\ \A i \in 1..Len(plan) : executed[i] # Pending
    /\ LET acc == CollectAll([ok |-> TRUE, frame |-> result.result.frame,
                              series |-> result.result.series, exec_stats |-> <<>>],
                             executed) IN
       IF ~acc.ok
       THEN /\ p_pc' = "raised"
            /\ p_exc' = <<"KeyError">>
            /\ result' = result
       ELSE /\ p_pc' = "done"
            /\ p_exc' = p_exc
            /\ result' = [result EXCEPT !.result.frame = acc.frame,
                                        !.result.series = acc.series,
                                        !.result.exec_details = acc.exec_stats,
                                        !.end = now]
    /\ UNCHANGED <<cls, profilers, override, caller_cfg, config, df, plan, executed, invoked>>

\* profile() is over; the instance stays and may be asked again
ProfileReset ==
    /\ p_pc \in {"done", "raised"}
    /\ p_pc' = "idle"
    /\ df' = NoTable
    /\ plan' = <<>>
    /\ executed' = <<>>
    /\ invoked' = <<>>
    /\ result' = NoResult
    /\ p_exc' = None
    /\ UNCHANGED <<cls, profilers, override, caller_cfg, config>>

\* ------------------------------------- single calls made by the client
VARIABLES
    q_pc,       \* "idle", "running" (inside scheduler.run), "done"
    q_op,       \* the operation the client called
    q_in,       \* its arguments
    q_out       \* what it produced

qvars == <<q_pc, q_op, q_in, q_out>>

\* targets a caller may ask get_profilers for
Targets == {"series", "frame", "any", "both", ""}

\* functions handed to the decorator
RawFunctions ==
    {[name |-> "no_params", params |-> <<>>],
     [name |-> "no_fun", params |-> <<Param("data", Annotated({"int"}), "_empty")>>],
     [name |-> "bare", params |-> <<Param("data", Empty, "_empty")>>],
     [name |-> "none_data", params |-> <<Param("data", AnnNone, "_empty")>>],
     [name |-> "fun_series", params |-> <<Param("data", Annotated({"Series"}), "_empty")>>],
     [name |-> "fun_frame", params |-> <<Param("data", Annotated({"DataFrame"}), "_empty")>>],
     [name |-> "fun_either",
      params |-> <<Param("data", Annotated({"Series", "DataFrame"}), "_empty")>>],
     [name |-> "ft_entropy",
      params |-> <<Param("data", Annotated({"Series"}), "_empty"),
                   Param("sampling_frequency", Annotated({"float"}), "1.0"),
                   Param("n_per_segment", Annotated({"int", "NoneType"}), "None")>>],
     [name |-> "bare_option",
      params |-> <<Param("data", Annotated({"Series"}), "_empty"),
                   Param("x", Empty, "1")>>],
     [name |-> "none_option",
      params |-> <<Param("data", Annotated({"DataFrame"}), "_empty"),
                   Param("x", AnnNone, "1")>>]}

\* scheduler.run(fn, args): the worker counts, the argument tuples and the
\* function of the scheduler test
NJobs == {1, 2}
TaskArgs == {0, 1}
ArgLists == UNION {[1..n -> TaskArgs] : n \in 0..MaxTasks}
fn(x) == x + 1

\* ProfileResults a caller may hold: a fresh one, the results of direct
\* calls, and the BundledResult of a bundle without profilers
InspectCalls ==
    {ProfilingFunction_call(p, a, k, o, 0, 1).ret :
        p \in {ProfilingFunction_init(ft_entropy), ProfilingFunction_init(corr_pearson)},
        a \in {<<>>, <<Series(StrName("alpha"))>>, <<Frame(<<>>)>>},
        k \in {<<>>, << <<"bogus", "9">> >>},
        o \in {[kind |-> "return", exc |-> NoExc, w |-> <<>>],
               [kind |-> "return", exc |-> NoExc, w |-> <<"w1">>],
               [kind |-> "raise", exc |-> "ZeroDivisionError", w |-> <<>>]}}
InspectInputs ==
    {[cls |-> "ProfileResult", obj |-> r] : r \in {ProfileResult_init} \cup InspectCalls}
    \cup {[cls |-> "BundledResult",
           obj |-> [NoResult EXCEPT !.name = "DummyA", !.scope = "both", !.target = "",
                                    !.start = 0, !.end = 1]]}

QueryInit ==
    /\ q_pc = "idle"
    /\ q_op = ""
    /\ q_in = <<>>
    /\ q_out = <<>>

\* cls.get_profilers(target)
GetProfilers(b, target) ==
    /\ q_pc = "idle"
    /\ q_pc' = "done"
    /\ q_op' = "get_profilers"
    /\ q_in' = [cls |-> b.cls, profilers |-> b.profilers, target |-> target]
    /\ q_out' = get_profilers_call(b.profilers, target)

\* @ProfilingFunction applied to a function
Wrap(f) ==
    /\ q_pc = "idle"
    /\ q_pc' = "done"
    /\ q_op' = "wrap"
    /\ q_in' = f
    /\ q_out' = ProfilingFunction_wrap(f)

\* a validator that sorts and filters the caller's table in place
Validate_in_place(t) ==
    /\ q_pc = "idle"
    /\ q_pc' = "done"
    /\ q_op' = "valid_timeseries"
    /\ q_in' = [arg |-> t, table |-> valid_timeseries(t).df]
    /\ q_out' = valid_timeseries(t)

\* valid_timeseries(t): arg is the table as it was passed, table is the
\* caller's table object after the call.  Line 62 builds new objects
\* (select_dtypes, sort_index, copy) and rebinds the local name only.
Validate(t) ==
    /\ q_pc = "idle"
    /\ q_pc' = "done"
    /\ q_op' = "valid_timeseries"
    /\ q_in' = [arg |-> t, table |-> t]
    /\ q_out' = valid_timeseries(t)

\* valid_timeseries applied to the table a successful call returned
Revalidate ==
    /\ q_pc = "done"
    /\ q_op = "valid_timeseries"
    /\ q_out.ok
    /\ q_pc' = "done"
    /\ q_op' = "valid_timeseries again"
    /\ q_in' = [arg |-> q_out.df, table |-> q_out.df, first |-> q_in.arg]
    /\ q_out' = valid_timeseries(q_out.df)

\* bool(pr), pr[k] for every field, and iteration, on a result the caller holds
Inspect(r) ==
    /\ q_pc = "idle"
    /\ q_pc' = "done"
    /\ q_op' = "inspect"
    /\ q_in' = r
    /\ q_out' = [bool |-> ProfileResult_bool(r),
                 getitem |-> [i \in 1..Len(Fields) |-> DCDict_getitem(r, Fields[i])],
                 iter |-> DCDict_iter(r)]

\* Scheduler({'n_jobs': n}).run(fn, args) is entered: line 72 hands the
\* tasks to Parallel
SchedulerRun(n, args) ==
    /\ q_pc = "idle"
    /\ q_pc' = "running"
    /\ q_op' = "run"
    /\ q_in' = [n_jobs |-> n, args |-> args]
    /\ q_out' = [tasks |-> [i \in 1..Len(args) |-> TaskPending],
                 calls |-> [i \in 1..Len(args) |-> 0],
                 order |-> <<>>,
                 ret |-> <<>>]

\* Parallel dispatches the next task of the iterator to a free worker,
\* which calls fn(*args[i])
TaskStart(i) ==
    /\ q_pc = "running"
    /\ q_op = "run"
    /\ i \in 1..Len(q_out.tasks)
    /\ q_out.tasks[i] = TaskPending
    /\ \A j \in 1..(i - 1) : q_out.tasks[j] # TaskPending
    /\ Cardinality({j \in 1..Len(q_out.tasks) : q_out.tasks[j] = TaskRunning}) < q_in.n_jobs
    /\ q_out' = [q_out EXCEPT !.tasks[i] = TaskRunning, !.calls[i] = @ + 1]
    /\ UNCHANGED <<q_pc, q_op, q_in>>

\* a worker finishes its task; workers finish in any order
TaskFinish(i) ==
    /\ q_pc = "running"
    /\ q_op = "run"
    /\ i \in 1..Len(q_out.tasks)
    /\ q_out.tasks[i] = TaskRunning
    /\ q_out' = [q_out EXCEPT !.tasks[i] = TaskDone(fn(q_in.args[i])),
                              !.order = Append(@, i)]
    /\ UNCHANGED <<q_pc, q_op, q_in>>

\* lines 72-75: every task has finished, run returns the list
RunReturn ==
    /\ q_pc = "running"
    /\ q_op = "run"
    /\ \A i \in 1..Len(q_out.tasks) : q_out.tasks[i].st = "done"
    /\ q_pc' = "done"
    /\ q_out' = [q_out EXCEPT !.ret = Parallel_results(q_out.tasks, q_out.order)]
    /\ UNCHANGED <<q_op, q_in>>

\* the client is done with the outcome of the call
QueryReset ==
    /\ q_pc = "done"
    /\ q_pc' = "idle"
    /\ q_op' = ""
    /\ q_in' = <<>>
    /\ q_out' = <<>>

\* ------------------------------------------------------------ lazyproperty
\* a property that is not lazy: the decorated function runs on every read
lazy_runs_always(stored) == TRUE

\* lazy_, misc.py line 40: the decorated function runs on a read exactly
\* when the underscored attribute is missing or None
lazy_runs(stored) == stored = None

\* ------------------------------------------------------------------ Report
\* A result as a Report holds it is [cls, obj]; NoneValue is None.
NoneValue == [cls |-> "NoneType", obj |-> [success |-> FALSE, by |-> "", of |-> NoTable]]

\* "not self._result", report/base.py line 82: None is false, a result
\* object answers through ProfileResult.__bool__
Bool(v) == IF v.cls = "NoneType" THEN FALSE ELSE ProfileResult_bool(v)

\* profiler.profile(df) as the Report sees it: the ValueError of an invalid
\* table, or a BundledResult (success True) of the validated table
Profiler_profile(p, t) ==
    LET v == valid_timeseries(t) IN
    IF ~v.ok
    THEN [raised |-> <<"ValueError">>, ret |-> NoneValue]
    ELSE [raised |-> None,
          ret |-> [cls |-> "BundledResult",
                   obj |-> [success |-> TRUE, by |-> p, of |-> v.df]]]

\* Report._taint, report/base.py lines 48-49
Report_taint(self) == [self EXCEPT !.result = NoneValue]

\* an override that forgets the rendering
HtmlReport_taint_result_only(self) == [self EXCEPT !.result = NoneValue]

\* HtmlReport._taint, report/html/report.py lines 76-78
HtmlReport_taint(self) == [self EXCEPT !.html = None, !.result = NoneValue]

\* self._taint() dispatches on the class of the report
Taint(self) == IF self.cls = "HtmlReport" THEN HtmlReport_taint(self) ELSE Report_taint(self)

\* the result property, report/base.py lines 80-84: [calls] counts the
\* calls of profiler.profile
Report_result(self) ==
    IF ~Bool(self.result)
    THEN LET v == Profiler_profile(self.profiler, self.df) IN
         IF v.raised # None
         THEN [raised |-> v.raised, self |-> self, ret |-> NoneValue, calls |-> 1]
         ELSE [raised |-> None, self |-> [self EXCEPT !.result = v.ret],
               ret |-> v.ret, calls |-> 1]
    ELSE [raised |-> None, self |-> self, ret |-> self.result, calls |-> 0]

\* a loop without the test of line 94
Instantiated_every_class(layout, ncols) == layout.SECTIONS

\* the section classes html() instantiates, in order, lines 93-97: every
\* class of SECTIONS, the _multiple_series ones skipped when the table has
\* one column or none
Instantiated(layout, ncols) ==
    SelectSeq(layout.SECTIONS, LAMBDA k : ~(ncols <= 1 /\ k \in layout.multiple_series))

\* what html() does with the sections, lines 93-108, as a list of events
\* (ncols is df.shape[1]): "new" a class is instantiated, "html" a section
\* of _sequential is rendered in the caller, "run" scheduler.run is called
\* with the batch of the other sections
RenderLog(layout, ncols) ==
    LET secs == Instantiated(layout, ncols)
        seq == SelectSeq(secs, LAMBDA k : k \in layout.sequential)
    IN [i \in 1..Len(secs) |-> [ev |-> "new", of |-> <<secs[i]>>]]
       \o [i \in 1..Len(seq) |-> [ev |-> "html", of |-> <<seq[i]>>]]
       \o <<[ev |-> "run", of |-> SelectSeq(secs, LAMBDA k : k \notin layout.sequential)]>>

\* the text html() returns: what it was rendered from
Rendering(self) == <<"html", self.result, self.df, Instantiated(self.layout, Len(self.df.columns))>>

\* the body of HtmlReport.html, lines 82-113: the read of self.result may
\* profile and may raise; ret is the text, None when the read raised
HtmlReport_html(self) ==
    LET text(res) == Rendering([self EXCEPT !.result = res])
    IN [Report_result(self) EXCEPT !.ret = IF @ = NoneValue THEN None ELSE text(@)]

\* lazy_, misc.py lines 38-42: h is what running the decorated function
\* does, field the underscored attribute
lazy_(self, field, h) ==
    IF lazy_runs(self[field])
    THEN [raised |-> h.raised,
          self |-> IF h.raised # None THEN h.self ELSE [h.self EXCEPT ![field] = h.ret],
          ret |-> h.ret, calls |-> h.calls, ran |-> TRUE]
    ELSE [raised |-> None, self |-> self, ret |-> self[field], calls |-> 0, ran |-> FALSE]

\* reading the lazy property html, report/html/report.py lines 80-81
Read_html(self) == lazy_(self, "html", HtmlReport_html(self))

\* the full page around a rendering, report/html/base.py lines 62-65
Page(html) == <<"page", html>>

\* reading the lazy property html_page, report/html/base.py lines 59-65:
\* its body reads self.html
Read_html_page(self) ==
    lazy_(self, "html_page",
          [Read_html(self) EXCEPT !.ret = IF @ = None THEN None ELSE Page(@)])

VARIABLES
    r_pc,       \* "none" no report, "live" a report exists, "raised" the constructor raised
    report,     \* the attributes of the report: cls, layout (SECTIONS,
                \* _multiple_series, _sequential), df, profiler, result, html, html_page
    r_given,    \* the result the constructor was given, while nothing was reassigned
    r_last,     \* the last operation on the report and what it did
    dummy,      \* an object with a lazy property a_prop that returns self.val
    d_last      \* the last operation on that object

reportvars == <<r_pc, report, r_given, r_last>>
lazyvars == <<dummy, d_last>>

\* SECTIONS, _multiple_series and _sequential of HtmlReport, lines 30-35
DefaultLayout ==
    [SECTIONS |-> <<"SectionSummary", "SectionTimeSeries", "SectionTSFeatures",
                    "SectionRelations">>,
     multiple_series |-> {"SectionTSFeatures", "SectionRelations"},
     sequential |-> {"SectionTimeSeries"}]

\* the class attributes test_multivariate installs
MockLayout ==
    [SECTIONS |-> <<"smts", "suts">>, multiple_series |-> {"smts"},
     sequential |-> {"smts", "suts"}]

NoLayout == [SECTIONS |-> <<>>, multiple_series |-> {}, sequential |-> {}]

ReportKinds == {<<"Report", NoLayout>>, <<"HtmlReport", DefaultLayout>>,
                <<"HtmlReport", MockLayout>>}

\* tables handed to a report: one series; two series out of order; a
\* numeric and a non-numeric column; an index without a frequency
ReportTables ==
    LET a == [name |-> StrName("a"), numeric |-> TRUE]
        b == [name |-> StrName("b"), numeric |-> TRUE]
        c == [name |-> StrName("c"), numeric |-> FALSE]
    IN {[isframe |-> TRUE, columns |-> <<a>>, index |-> <<1, 2, 3>>, dtindex |-> TRUE],
        [isframe |-> TRUE, columns |-> <<a, b>>, index |-> <<3, 1, 2>>, dtindex |-> TRUE],
        [isframe |-> TRUE, columns |-> <<a, c>>, index |-> <<1, 2, 3>>, dtindex |-> TRUE],
        [isframe |-> TRUE, columns |-> <<a>>, index |-> <<1, 2, 4>>, dtindex |-> TRUE]}

ReportProfilers == {"X", "Y"}

\* results a caller hands over: computed elsewhere, successful or not
GivenResults ==
    {[cls |-> "BundledResult", obj |-> [success |-> s, by |-> "caller", of |-> NoTable]] :
        s \in BOOLEAN}

NoReport ==
    [cls |-> "", layout |-> NoLayout, df |-> NoTable, profiler |-> "", result |-> NoneValue,
     html |-> None, html_page |-> None]

\* r_last: the operation, the exception it raised, the result or the text
\* it returned, the calls of profiler.profile it made, whether a lazy
\* property ran its function, the section events of a render, and the
\* report as it was before the operation
NoOp == [op |-> "", raised |-> None, res |-> NoneValue, text |-> None, calls |-> 0,
         ran |-> FALSE, log |-> <<>>, before |-> NoReport]

\* what self.val holds in the model: 1, 23, None
DummyValues == {<<"1">>, <<"23">>, None}

NoDummy == [pc |-> "none", val |-> None, a_prop |-> None]
NoRead == [op |-> "", ran |-> FALSE, before |-> None, ret |-> None]

ReportInit ==
    /\ r_pc = "none"
    /\ report = NoReport
    /\ r_given = NoneValue
    /\ r_last = NoOp
    /\ dummy = NoDummy
    /\ d_last = NoRead

\* Report.__init__, report/base.py lines 40-46, and HtmlReport.__init__,
\* report/html/report.py lines 66-74
NewReport(kind, t, res, p) ==
    /\ r_pc = "none"
    /\ LET v == valid_timeseries(t) IN
       IF ~v.ok
       THEN /\ r_pc' = "raised"
            /\ r_last' = [NoOp EXCEPT !.op = "init", !.raised = <<"ValueError">>]
            /\ UNCHANGED <<report, r_given>>
       ELSE /\ r_pc' = "live"
            /\ report' = [cls |-> kind[1], layout |-> kind[2], df |-> v.df, profiler |-> p,
                          result |-> res, html |-> None, html_page |-> None]
            /\ r_given' = res
            /\ r_last' = [NoOp EXCEPT !.op = "init"]

\* the df setter, report/base.py lines 55-58
SetDf(t) ==
    /\ r_pc = "live"
    /\ report' = Taint([report EXCEPT !.df = t])
    /\ r_given' = NoneValue
    /\ r_last' = [NoOp EXCEPT !.op = "df=", !.before = report]

\* the profiler setter, report/base.py lines 75-78
SetProfiler(p) ==
    /\ r_pc = "live"
    /\ report' = Taint([report EXCEPT !.profiler = p])
    /\ r_given' = NoneValue
    /\ r_last' = [NoOp EXCEPT !.op = "profiler=", !.before = report]

\* the result setter, report/base.py lines 86-89
SetResult(v) ==
    /\ r_pc = "live"
    /\ report' = [Taint(report) EXCEPT !.result = v]
    /\ r_given' = NoneValue
    /\ r_last' = [NoOp EXCEPT !.op = "result=", !.before = report]

\* a read of report.result
ReadResult ==
    /\ r_pc = "live"
    /\ LET g == Report_result(report) IN
       /\ report' = g.self
       /\ r_last' = [NoOp EXCEPT !.op = "result", !.raised = g.raised, !.res = g.ret,
                                 !.calls = g.calls, !.before = report]
    /\ UNCHANGED <<r_pc, r_given>>

\* the report and the record of the operation after a read h of html or
\* html_page; the sections were built when html() ran and did not raise
AfterRead(op, h) ==
    /\ report' = h.self
    /\ r_last' = [NoOp EXCEPT
                     !.op = op, !.raised = h.raised, !.text = h.ret, !.calls = h.calls,
                     !.ran = h.ran, !.before = report,
                     !.log = IF report.html = None /\ h.self.html # None
                             THEN RenderLog(report.layout, Len(report.df.columns))
                             ELSE <<>>]

\* a read of report.html
ReadHtml ==
    /\ r_pc = "live"
    /\ report.cls = "HtmlReport"
    /\ AfterRead("html", Read_html(report))
    /\ UNCHANGED <<r_pc, r_given>>

\* a read of report.html_page, directly or through save() without a path,
\* report/html/report.py lines 122-123
ReadHtmlPage(op) ==
    /\ r_pc = "live"
    /\ report.cls = "HtmlReport"
    /\ AfterRead(op, Read_html_page(report))
    /\ UNCHANGED <<r_pc, r_given>>

\* the client lets go of the report
DropReport ==
    /\ r_pc \in {"live", "raised"}
    /\ r_pc' = "none"
    /\ report' = NoReport
    /\ r_given' = NoneValue
    /\ r_last' = NoOp

\* Dummy(val) of test_lazyproperty, tests/unit/test_misc.py lines 9-15
NewDummy(v) ==
    /\ dummy.pc = "none"
    /\ dummy' = [pc |-> "live", val |-> v, a_prop |-> None]
    /\ d_last' = [NoRead EXCEPT !.op = "init"]

\* d.val = v
SetVal(v) ==
    /\ dummy.pc = "live"
    /\ dummy' = [dummy EXCEPT !.val = v]
    /\ d_last' = [NoRead EXCEPT !.op = "val="]

\* a read of d.a_prop: lazy_, misc.py lines 38-42, around "return self.val"
ReadAProp ==
    /\ dummy.pc = "live"
    /\ LET ran == lazy_runs(dummy.a_prop)
           stored == IF ran THEN dummy.val ELSE dummy.a_prop
       IN /\ dummy' = [dummy EXCEPT !.a_prop = stored]
          /\ d_last' = [op |-> "read", ran |-> ran, before |-> dummy.a_prop, ret |-> stored]

\* the client lets go of the object
DropDummy ==
    /\ dummy.pc = "live"
    /\ dummy' = NoDummy
    /\ d_last' = NoRead

\* The client does one thing at a time: it is inside a direct call of a
\* wrapped function, it works with a BundledProfiler, or it makes one of
\* the single calls (get_profilers, the decorator, valid_timeseries, reads
\* of a result, scheduler.run), it works with a Report, or it works with an
\* object that has a lazy property.
ClientFree ==
    p_pc = "new" /\ c_pc = "idle" /\ q_pc = "idle" /\ r_pc = "none" /\ dummy.pc = "none"

\* Only differences between clock readings are observable, so the clock is
\* at 0 when the client starts an operation and moves while the operation
\* is under way.  During a dispatch the units all read one clock value: the
\* clock moves again once scheduler.run has every result.
ClockRuns ==
    \/ c_pc \notin {"idle", "returned", "raised"}
    \/ (p_pc = "dispatching" /\ \A i \in 1..Len(plan) : executed[i] # Pending)

vars == <<now, callvars, bundlevars, qvars, reportvars, lazyvars>>

Init ==
    /\ now = 0
    /\ CallInit
    /\ BundleInit
    /\ QueryInit
    /\ ReportInit

Next ==
    \/ (ClockRuns /\ Tick /\ UNCHANGED <<callvars, bundlevars, qvars, reportvars, lazyvars>>)
    \/ (ClientFree /\ \E p \in Profilers, a \in CallArgs, k \in CallKwargs :
            CallEnter(p, a, k) /\ UNCHANGED <<now, bundlevars, qvars, reportvars, lazyvars>>)
    \/ (CallBind /\ UNCHANGED <<now, bundlevars, qvars, reportvars, lazyvars>>)
    \/ (FnBegin /\ UNCHANGED <<now, bundlevars, qvars, reportvars, lazyvars>>)
    \/ (c_pc = "running" /\ \E out \in FnOutcomes :
            FnEnd(out) /\ UNCHANGED <<now, bundlevars, qvars, reportvars, lazyvars>>)
    \/ (CallHandle /\ UNCHANGED <<now, bundlevars, qvars, reportvars, lazyvars>>)
    \/ (CallFinally /\ UNCHANGED <<now, bundlevars, qvars, reportvars, lazyvars>>)
    \/ (CallReset /\ now' = 0 /\ UNCHANGED <<bundlevars, qvars, reportvars, lazyvars>>)
    \/ (ClientFree /\ \E b \in Bundles, cfg \in Overrides :
            Construct(b, cfg) /\ UNCHANGED <<now, callvars, qvars, reportvars, lazyvars>>)
    \/ (MutateOverride("ft_entropy", "n_per_segment", "5")
            /\ UNCHANGED <<now, callvars, qvars, reportvars, lazyvars>>)
    \/ (p_pc = "idle" /\ \E t \in InputTables :
            ProfileBegin(t) /\ UNCHANGED <<now, callvars, qvars, reportvars, lazyvars>>)
    \/ (p_pc = "dispatching" /\ \E i \in 1..Len(plan), out \in UnitOutcomes :
            RunUnit(i, out) /\ UNCHANGED <<now, callvars, qvars, reportvars, lazyvars>>)
    \/ (Collect /\ UNCHANGED <<now, callvars, qvars, reportvars, lazyvars>>)
    \/ (ProfileReset /\ now' = 0 /\ UNCHANGED <<callvars, qvars, reportvars, lazyvars>>)
    \/ (ClientFree /\ \E b \in Bundles, target \in Targets :
            GetProfilers(b, target) /\ UNCHANGED <<now, callvars, bundlevars, reportvars, lazyvars>>)
    \/ (ClientFree /\ \E f \in RawFunctions :
            Wrap(f) /\ UNCHANGED <<now, callvars, bundlevars, reportvars, lazyvars>>)
    \/ (ClientFree /\ \E t \in InputTables :
            Validate(t) /\ UNCHANGED <<now, callvars, bundlevars, reportvars, lazyvars>>)
    \/ (Revalidate /\ UNCHANGED <<now, callvars, bundlevars, reportvars, lazyvars>>)
    \/ (ClientFree /\ \E r \in InspectInputs :
            Inspect(r) /\ UNCHANGED <<now, callvars, bundlevars, reportvars, lazyvars>>)
    \/ (ClientFree /\ \E n \in NJobs, args \in ArgLists :
            SchedulerRun(n, args) /\ UNCHANGED <<now, callvars, bundlevars, reportvars, lazyvars>>)
    \/ (q_pc = "running" /\ \E i \in 1..MaxTasks :
            TaskStart(i) /\ UNCHANGED <<now, callvars, bundlevars, reportvars, lazyvars>>)
    \/ (q_pc = "running" /\ \E i \in 1..MaxTasks :
            TaskFinish(i) /\ UNCHANGED <<now, callvars, bundlevars, reportvars, lazyvars>>)
    \/ (RunReturn /\ UNCHANGED <<now, callvars, bundlevars, reportvars, lazyvars>>)
    \/ (QueryReset /\ UNCHANGED <<now, callvars, bundlevars, reportvars, lazyvars>>)
    \/ (ClientFree /\ \E kind \in ReportKinds, t \in ReportTables,
                       res \in GivenResults \cup {NoneValue}, p \in ReportProfilers :
            NewReport(kind, t, res, p) /\ UNCHANGED <<now, callvars, bundlevars, qvars, lazyvars>>)
    \/ (r_pc = "live" /\ \E t \in ReportTables :
            SetDf(t) /\ UNCHANGED <<r_pc, now, callvars, bundlevars, qvars, lazyvars>>)
    \/ (r_pc = "live" /\ \E p \in ReportProfilers :
            SetProfiler(p) /\ UNCHANGED <<r_pc, now, callvars, bundlevars, qvars, lazyvars>>)
    \/ (r_pc = "live" /\ \E v \in GivenResults :
            SetResult(v) /\ UNCHANGED <<r_pc, now, callvars, bundlevars, qvars, lazyvars>>)
    \/ (ReadResult /\ UNCHANGED <<now, callvars, bundlevars, qvars, lazyvars>>)
    \/ (ReadHtml /\ UNCHANGED <<now, callvars, bundlevars, qvars, lazyvars>>)
    \/ (r_pc = "live" /\ \E op \in {"html_page", "save"} :
            ReadHtmlPage(op) /\ UNCHANGED <<now, callvars, bundlevars, qvars, lazyvars>>)
    \/ (DropReport /\ UNCHANGED <<now, callvars, bundlevars, qvars, lazyvars>>)
    \/ (ClientFree /\ \E v \in DummyValues :
            NewDummy(v) /\ UNCHANGED <<now, callvars, bundlevars, qvars, reportvars>>)
    \/ (dummy.pc = "live" /\ \E v \in DummyValues :
            SetVal(v) /\ UNCHANGED <<now, callvars, bundlevars, qvars, reportvars>>)
    \/ (ReadAProp /\ UNCHANGED <<now, callvars, bundlevars, qvars, reportvars>>)
    \/ (DropDummy /\ UNCHANGED <<now, callvars, bundlevars, qvars, reportvars>>)

Spec == Init /\ [][Next]_vars

\* ------------------------------------------------------------- properties

\* C1 as stated: invoking a ProfilingFunction never raises to its caller,
\* whatever the type of the exception the wrapped function raises.
C1_NeverRaises == c_pc # "raised"

\* C1 amended: an exception raised inside the wrapper that derives from
\* Exception (argument binding included) never leaves the call; only an
\* exception that derives from BaseException alone leaves it.  A returned
\* result has success = TRUE exactly when the wrapped function returned.
C1_OnlyBaseExceptionsEscape ==
    /\ (c_pc = "raised" => c_fnrun = "raise" /\ c_exc \in BaseOnlyClasses)
    /\ (c_pc \in {"returned", "raised"} /\ c_exc \in ExceptionClasses => c_pc = "returned")
    /\ (c_pc = "returned" => (c_pr.success <=> c_fnrun = "return"))

C1_Witness ==
    /\ c_pc = "returned"
    /\ c_fnrun = "raise"
    /\ c_exc = "ZeroDivisionError"
    /\ ~c_pr.success

\* C5 as stated: scope is "frame" when the data is a frame and "series"
\* otherwise; target is the series' own name (as text) when the scope is
\* "series" and the series has a name, and "" otherwise.
C5_ScopeTargetFromData ==
    (c_pc \in {"with", "running", "finally", "returned", "raised"} /\ c_pr.scope # Unset) =>
        LET d == c_args[1] IN
        /\ c_pr.scope = (IF d.kind = "frame" THEN "frame" ELSE "series")
        /\ c_pr.target = (IF d.kind = "series" /\ d.name.t # "none" THEN d.name.v ELSE "")

\* C6: every returned ProfileResult has start stamped before the wrapped
\* function is invoked and end stamped after it finished, on both paths, so
\* end >= start; the same holds for the BundledResult of profile() and for
\* the Start/End of its ledger rows.
C6_EndNotBeforeStart ==
    /\ (c_pc = "returned" =>
            /\ c_pr.start # NoTime
            /\ c_pr.end >= c_pr.start
            /\ (c_fnrun \in {"return", "raise"} => c_pr.start <= c_t0 /\ c_t1 <= c_pr.end))
    /\ (p_pc = "done" =>
            /\ result.start # NoTime
            /\ result.end >= result.start
            /\ \A i \in 1..Len(result.result.exec_details) :
                  LET row == result.result.exec_details[i] IN
                  /\ row.Start # NoTime
                  /\ row.End >= row.Start
                  /\ row.Duration = row.End - row.Start
                  /\ result.start <= row.Start
                  /\ row.End <= result.end)

C6_Witness ==
    /\ c_pc = "returned"
    /\ c_fnrun = "raise"
    /\ ~c_pr.success
    /\ c_pr.start < c_t0
    /\ c_t1 < c_pr.end

\* C7: when the wrapped function (or the binding of its arguments) raises,
\* the returned result has result = None, success = FALSE and exception =
\* ProfileException(original); when it returns normally exception is None.
\* So exception is present exactly when success is FALSE, also in the
\* ledger rows of profile().
C7_ExceptionIffFailure ==
    /\ (c_pc = "returned" =>
            /\ (c_pr.exception # None <=> ~c_pr.success)
            /\ (c_exc # NoExc =>
                    /\ c_pr.result = None
                    /\ ~c_pr.success
                    /\ c_pr.exception = <<"ProfileException", c_exc>>)
            /\ (c_exc = NoExc => c_pr.exception = None /\ c_pr.success))
    /\ \A i \in 1..Len(executed) :
          executed[i] # Pending =>
              /\ (executed[i][3].Exceptions # None <=> ~executed[i][3].Succeeded)
              /\ (~executed[i][3].Succeeded => executed[i][2] = None)

C7_Witness ==
    /\ c_pc = "returned"
    /\ c_exc = "ZeroDivisionError"
    /\ c_pr.exception = <<"ProfileException", "ZeroDivisionError">>

\* the declaration a descriptor was made from
DeclOf(name) ==
    CASE name = "ft_entropy" -> ft_entropy
      [] name = "binned" -> binned
      [] name = "corr_pearson" -> corr_pearson
      [] name = "freq" -> freq

ProfilerNames == {profilers[i].name : i \in 1..Len(profilers)}
FrameNames == {profilers[i].name : i \in {j \in 1..Len(profilers) : profilers[j].is_pframe}}
SeriesProfilerNames == {profilers[i].name : i \in {j \in 1..Len(profilers) : profilers[j].is_pseries}}

\* C2 as stated: once the table has passed validation, profile() never
\* raises because a unit failed; what leaves profile() is a validation
\* error or an exception that the wrapper does not convert at all.
C2_UnitFailureNeverRaises ==
    p_pc = "raised" =>
        \/ (p_exc = <<"ValueError">> /\ df = NoTable)
        \/ p_exc[1] \in BaseOnlyClasses

\* C3: in one profile() call every planned unit is invoked at most once
\* while it runs and exactly once when it returns; exec_details then has
\* exactly F + S*C rows, row i records unit i with run count 1 and
\* Succeeded equal to whether the unit's function returned.
C3_LedgerComplete ==
    /\ \A i \in 1..Len(invoked) : Len(invoked[i]) <= 1
    /\ (p_pc = "done" =>
            LET F == Cardinality(FrameNames)
                S == Cardinality(SeriesProfilerNames)
                C == Len(df.columns)
                rows == result.result.exec_details
            IN /\ Len(rows) = F + S * C
               /\ Len(plan) = F + S * C
               /\ \A i \in 1..Len(rows) :
                     /\ Len(invoked[i]) = 1
                     /\ rows[i].Runs = 1
                     /\ rows[i].Profiler = plan[i].fn.name
                     /\ rows[i].Succeeded = (invoked[i][1] = "return")
                     /\ rows[i] = executed[i][3])

C3_Witness ==
    /\ p_pc = "done"
    /\ Len(df.columns) >= 2
    /\ Cardinality(SeriesProfilerNames) >= 2
    /\ \E i \in 1..Len(result.result.exec_details) : ~result.result.exec_details[i].Succeeded
    /\ \E i \in 1..Len(result.result.exec_details) : result.result.exec_details[i].Succeeded

\* C4 as stated: after profile() returns, frame has exactly the names of the
\* frame-scoped profilers, series has exactly the column labels, every
\* series[column] has exactly the names of the series-scoped profilers, and
\* each entry holds the payload of its unit.
C4_FrameSeriesKeys ==
    p_pc = "done" =>
        LET fr == result.result.frame
            se == result.result.series
            cols == Columns(df)
            F == Cardinality(FrameNames)
            C == Len(cols)
        IN /\ KeySet(fr) = FrameNames
           /\ KeySet(se) = {cols[j].v : j \in 1..C}
           /\ \A c \in KeySet(se) : KeySet(DictGet(se, c)) = SeriesProfilerNames
           /\ \A i \in 1..Len(plan) :
                 IF i <= F
                 THEN DictGet(fr, plan[i].fn.name) = executed[i][2]
                 ELSE DictGet(DictGet(se, cols[((i - F - 1) % C) + 1].v), plan[i].fn.name)
                          = executed[i][2]

\* C8: constructed without overrides, the instance config has one entry per
\* bundled profiler, in declaration order, holding exactly the parameters
\* after the first with their declared defaults.
C8_DefaultConfig ==
    (p_pc # "new" /\ ~(override.given /\ override.items # <<>>)) =>
        /\ config = get_config_defaults(profilers)
        /\ DictKeys(config) = [i \in 1..Len(profilers) |-> profilers[i].name]
        /\ \A i \in 1..Len(profilers) : config[i][2] = DeclOf(profilers[i].name).rest

C8_Witness ==
    /\ p_pc = "idle"
    /\ ~override.given
    /\ cls = "DummyC"
    /\ Len(config) = 2

StripUnknown(cfg, ps) ==
    SelectSeq(cfg, LAMBDA it : \E i \in 1..Len(ps) : ps[i].name = it[1])

\* C10: an override key that names no bundled profiler changes nothing in
\* profile(): the units are those planned without that key, and no ledger
\* row, frame key or series entry carries a name outside the bundle.
C10_UnknownKeyUnused ==
    /\ (p_pc \in {"dispatching", "done"} =>
            plan = Plan(profilers, df, StripUnknown(config, profilers)))
    /\ (p_pc = "done" =>
            /\ Len(result.result.exec_details) = Len(plan)
            /\ \A i \in 1..Len(plan) : result.result.exec_details[i].Profiler \in ProfilerNames
            /\ KeySet(result.result.frame) \subseteq ProfilerNames
            /\ \A j \in 1..Len(result.result.series) :
                  KeySet(result.result.series[j][2]) \subseteq ProfilerNames)

C10_Witness ==
    /\ p_pc = "done"
    /\ override.given
    /\ DictHas(override.items, "nosuch")
    /\ DictHas(config, "nosuch")
    /\ Len(plan) >= 2

\* C11: for every bundle, the names of get_profilers("frame") together with
\* those of get_profilers("series") are the names of get_profilers("any");
\* a filtered result holds exactly the profilers declared for that target
\* (one declared for both is in both), in the declaration order of the
\* profiler list; any other target is rejected.
C11_FilterExhaustive ==
    (q_op = "get_profilers" /\ q_pc = "done") =>
        LET ps == q_in.profilers
            names == [i \in 1..Len(ps) |-> ps[i].name]
            declared(t) == {names[i] : i \in {j \in 1..Len(ps) :
                                \/ t = "any"
                                \/ (t = "series" /\ "Series" \in DeclOf(names[j]).types)
                                \/ (t = "frame" /\ "DataFrame" \in DeclOf(names[j]).types)}}
        IN /\ (q_in.target \notin {"series", "frame", "any"} => q_out.raised # None)
           /\ (q_in.target \in {"series", "frame", "any"} =>
                  /\ q_out.raised = None
                  /\ KeySet(q_out.ret) = declared(q_in.target)
                  /\ DictKeys(q_out.ret) = KeepIn(names, KeySet(q_out.ret))
                  /\ \A i \in 1..Len(q_out.ret) : q_out.ret[i][2].name = q_out.ret[i][1])
           /\ KeySet(get_profilers_call(ps, "frame").ret)
                  \cup KeySet(get_profilers_call(ps, "series").ret)
              = KeySet(get_profilers_call(ps, "any").ret)

C11_Witness ==
    /\ q_op = "get_profilers"
    /\ q_pc = "done"
    /\ q_in.cls = "DummyD"
    /\ q_in.target = "frame"
    /\ DictKeys(q_out.ret) = <<"freq">>
    /\ DictHas(get_profilers_call(q_in.profilers, "series").ret, "freq")

\* C12 as stated: wrapping fails when the function has no parameter, when
\* any parameter (first or later) has no annotation, or when the first
\* parameter's annotation names neither series nor frame; when wrapping
\* succeeds at least one of is_pseries / is_pframe holds, and both hold for
\* a union of series and frame.
C12_WrapRejects ==
    (q_op = "wrap" /\ q_pc = "done") =>
        LET ps == q_in.params IN
        /\ (Len(ps) = 0 => q_out.raised # None)
        /\ ((\E i \in 1..Len(ps) : ps[i].annotation.kind = "empty") => q_out.raised # None)
        /\ ((Len(ps) >= 1 /\ ps[1].annotation.types \cap {"Series", "DataFrame"} = {})
                => q_out.raised # None)
        /\ (q_out.raised = None =>
                /\ (q_out.ret.is_pseries \/ q_out.ret.is_pframe)
                /\ ({"Series", "DataFrame"} \subseteq ps[1].annotation.types =>
                        q_out.ret.is_pseries /\ q_out.ret.is_pframe))

\* C13: scheduler.run(fn, args) calls fn at most once per element of args
\* while it runs; when it returns, every element was called exactly once
\* and the list has one element per element of args, the i-th being
\* fn(args[i]), whatever the worker count and the order the tasks finished.
C13_RunInSubmissionOrder ==
    q_op = "run" =>
        /\ \A i \in 1..Len(q_in.args) : q_out.calls[i] <= 1
        /\ (q_pc = "done" =>
                /\ Len(q_out.ret) = Len(q_in.args)
                /\ \A i \in 1..Len(q_in.args) :
                      /\ q_out.ret[i] = q_in.args[i] + 1
                      /\ q_out.calls[i] = 1)

C13_Witness ==
    /\ q_op = "run"
    /\ q_pc = "done"
    /\ q_in.n_jobs = 2
    /\ Len(q_in.args) = 3
    /\ q_in.args[1] # q_in.args[2]
    /\ q_out.order[1] = 2

C15_ValidatedTable ==
    /\ (q_op = "valid_timeseries" /\ q_pc = "done" /\ q_out.ok =>
            /\ q_out.df.columns = SelectSeq(q_in.arg.columns, LAMBDA c : c.numeric)
            /\ \A i \in 1..(Len(q_out.df.index) - 1) :
                  q_out.df.index[i] <= q_out.df.index[i + 1]
            /\ Len(q_out.df.index) = Len(q_in.arg.index)
            /\ {q_out.df.index[i] : i \in 1..Len(q_out.df.index)}
                   = {q_in.arg.index[i] : i \in 1..Len(q_in.arg.index)}
            /\ q_in.table = q_in.arg)
    /\ (q_op = "valid_timeseries" /\ q_pc = "done" => q_in.table = q_in.arg)
    /\ (q_op = "valid_timeseries again" =>
            /\ q_out.ok
            /\ q_out.df = q_in.arg
            /\ q_in.table = q_in.arg)

C15_Witness ==
    /\ q_op = "valid_timeseries again"
    /\ q_out.ok
    /\ q_in.first.index = <<3, 1, 2>>
    /\ Len(q_in.first.columns) = 2
    /\ Len(q_out.df.columns) = 1

\* C16: when the table fails validation profile() raises the ValueError and
\* nothing else has happened: no plan was handed to the scheduler, no unit
\* ran, no wrapped function was invoked and no BundledResult was started.
C16_InvalidTableStopsProfile ==
    (p_pc = "raised" /\ p_exc = <<"ValueError">>) =>
        /\ df = NoTable
        /\ plan = <<>>
        /\ executed = <<>>
        /\ invoked = <<>>
        /\ result = NoResult

C16_Witness ==
    /\ p_pc = "raised"
    /\ p_exc = <<"ValueError">>
    /\ Len(profilers) = 2
    /\ plan = <<>>

\* C17 as stated: bool(result) is its success field, result[k] is the
\* attribute k for every field, and iterating the result yields, for every
\* field in order, the field name with the value of the attribute.
C17_MappingReadsAgree ==
    (q_op = "inspect" /\ q_pc = "done") =>
        /\ q_out.bool = q_in.obj.success
        /\ \A i \in 1..Len(Fields) : q_out.getitem[i] = GetAttr(q_in, Fields[i])
        /\ q_out.iter.raised = None
        /\ Len(q_out.iter.items) = Len(Fields)
        /\ \A i \in 1..Len(q_out.iter.items) :
              /\ q_out.iter.items[i].key = Fields[i]
              /\ q_out.iter.items[i].val = GetAttr(q_in, Fields[i]).val
              /\ q_out.iter.items[i].how = "equal"

\* C18 as stated: the instance config is the one resolved at construction
\* at every later moment, whatever the caller does to the mapping it passed;
\* every unit of every profile() call gets its keywords from it and every
\* result records it.
C18_ConfigResolvedOnce ==
    p_pc # "new" =>
        /\ config = BundledProfiler_init(profilers, override)
        /\ (p_pc \in {"dispatching", "done"} =>
                /\ result.result.config = config
                /\ \A i \in 1..Len(plan) :
                      plan[i].config = DictGet(config, plan[i].fn.name))

\* two dicts with the same keys and values, whatever the insertion order
DictSame(a, b) ==
    /\ KeySet(a) = KeySet(b)
    /\ \A k \in KeySet(a) : DictGet(a, k) = DictGet(b, k)

C20_WorkersLeaveResultAlone ==
    p_pc = "dispatching" =>
        /\ result.result.frame = <<>>
        /\ result.result.exec_details = <<>>
        /\ result.result.series = EmptySeries(Columns(df))
        /\ \A i \in 1..Len(plan) :
              executed[i] # Pending =>
                  \E out \in UnitOutcomes :
                      /\ out.kind = invoked[i][1]
                      /\ executed[i] = Run(plan[i], out, result.start, result.start).ret

C20_Witness ==
    /\ p_pc = "dispatching"
    /\ Len(plan) >= 3
    /\ \E i \in 1..Len(plan) : executed[i] # Pending /\ executed[i][3].Succeeded
    /\ \E i \in 1..Len(plan) : executed[i] # Pending /\ ~executed[i][3].Succeeded
    /\ \E i \in 1..Len(plan) : executed[i] = Pending
    /\ result.result.exec_details = <<>>

\* C21 as stated: a read of Report.result calls profiler.profile(df) exactly
\* when no result is cached; a cached result (left by an earlier read or
\* installed by an assignment) is what the read returns; after df or
\* profiler was assigned the cache is empty, and a read that profiles returns
\* the profile of the current df by the current profiler.
C21_ResultLazyAndCached ==
    /\ (r_last.op \in {"df=", "profiler="} => report.result = NoneValue)
    /\ (r_last.op = "result=" => report.result # NoneValue)
    /\ (r_last.op = "result" =>
           /\ (r_last.calls > 0 <=> r_last.before.result = NoneValue)
           /\ (r_last.before.result # NoneValue => r_last.res = r_last.before.result)
           /\ (r_last.calls > 0 /\ r_last.raised = None =>
                  r_last.res = Profiler_profile(report.profiler, report.df).ret))

\* the classes named by the events of one kind, in the order of the events
ClassesOf(log, ev) ==
    LET evs == SelectSeq(log, LAMBDA e : e.ev = ev)
    IN [i \in 1..Len(evs) |-> evs[i].of[1]]

\* how often k occurs in a list
Count(seq, k) == Cardinality({i \in 1..Len(seq) : seq[i] = k})

\* a list that takes its elements from another list without changing their order
InOrderOf(seq, ref) ==
    \A i, j \in 1..Len(seq) :
        i < j => \E a, b \in 1..Len(ref) : a < b /\ ref[a] = seq[i] /\ ref[b] = seq[j]

\* C22: a render of HtmlReport.html instantiates the classes of SECTIONS in
\* order, each once, except that with at most one column no class of
\* _multiple_series is instantiated; the _sequential sections are rendered
\* in the caller, in order, and after them the other sections go to
\* scheduler.run in one batch.
C22_SectionsOfARender ==
    r_last.log # <<>> =>
        LET log == r_last.log
            L == report.layout
            n == Len(report.df.columns)
            news == ClassesOf(log, "new")
            htmls == ClassesOf(log, "html")
            batch == log[Len(log)].of
        IN /\ \A i \in 1..Len(L.SECTIONS) :
                  Count(news, L.SECTIONS[i]) =
                      IF n <= 1 /\ L.SECTIONS[i] \in L.multiple_series THEN 0 ELSE 1
           /\ Len(news) = Cardinality({i \in 1..Len(L.SECTIONS) :
                                          Count(news, L.SECTIONS[i]) = 1})
           /\ InOrderOf(news, L.SECTIONS)
           /\ \A i \in 1..Len(news) :
                  /\ Count(htmls, news[i]) = (IF news[i] \in L.sequential THEN 1 ELSE 0)
                  /\ Count(batch, news[i]) = (IF news[i] \in L.sequential THEN 0 ELSE 1)
           /\ Len(htmls) + Len(batch) = Len(news)
           /\ InOrderOf(htmls, L.SECTIONS)
           /\ Cardinality({i \in 1..Len(log) : log[i].ev = "run"}) = 1
           /\ log[Len(log)].ev = "run"
           /\ \A i, j \in 1..Len(log) : log[i].ev = "new" /\ log[j].ev = "html" => i < j

\* C22 happens: the stock sections are rendered for a table of one column,
\* two classes are skipped, one section is rendered in the caller and one
\* goes to the scheduler
C22_Witness ==
    /\ r_last.op = "html"
    /\ r_last.ran
    /\ r_last.raised = None
    /\ report.layout = DefaultLayout
    /\ Len(report.df.columns) = 1
    /\ Len(r_last.log) = 4

\* C23: on an HtmlReport an assignment of df, profiler or result leaves no
\* cached html behind, so a cached html is always the rendering of the
\* report's present result and table, and that is what a read of html
\* returns.
C23_AssignmentClearsHtml ==
    (r_pc = "live" /\ report.cls = "HtmlReport") =>
        /\ (r_last.op \in {"df=", "profiler=", "result="} => report.html = None)
        /\ (report.html # None => report.html = Rendering(report))
        /\ (r_last.op = "html" /\ r_last.raised = None => r_last.text = Rendering(report))

\* C23 happens: an assignment on a report that held a rendering has just
\* cleared it
C23_Witness ==
    /\ r_pc = "live"
    /\ report.cls = "HtmlReport"
    /\ r_last.op \in {"df=", "profiler=", "result="}
    /\ r_last.before.html # None
    /\ report.html = None

\* C24: a read of a lazy property runs the function exactly when the stored
\* value is None, then stores what the function returned; otherwise it
\* returns the stored value as it is, whatever the function would return now.
C24_LazyPropertyRunsOnce ==
    d_last.op = "read" =>
        /\ (d_last.ran <=> d_last.before = None)
        /\ d_last.ret = dummy.a_prop
        /\ (d_last.ran => d_last.ret = dummy.val)
        /\ (~d_last.ran => d_last.ret = d_last.before)

\* C24 happens: val changed after the first read and a later read still
\* returns the first value
C24_Witness ==
    /\ d_last.op = "read"
    /\ ~d_last.ran
    /\ dummy.val # None
    /\ d_last.ret # dummy.val

\* C25 as stated: every ProfileResult a call returns has all nine fields
\* set, also when the arguments could not be bound, so profile() can always
\* read scope and target when it builds the ledger row of a unit.
C25_EveryFieldSet ==
    /\ (c_pc = "returned" =>
           \A i \in 1..Len(Fields) : IsSet([cls |-> "ProfileResult", obj |-> c_pr], Fields[i]))
    /\ (p_pc = "raised" => p_exc # <<"AttributeError">>)

\* C26 as stated: every (series-scoped profiler, column) unit of a validated
\* table is handed a single series; its ledger row has Scope "series" and
\* the column's label as Target; its payload ends up under
\* series[column][name] and not under frame.
C26_SeriesUnitsGetOneSeries ==
    p_pc \in {"dispatching", "done"} =>
        LET cols == Columns(df)
            F == Cardinality(FrameNames)
            C == Len(cols)
        IN \A i \in 1..Len(plan) :
               i > F =>
                   LET col == cols[((i - F - 1) % C) + 1].v
                       name == plan[i].fn.name
                   IN /\ plan[i].data.kind = "series"
                      /\ (executed[i] # Pending =>
                              /\ executed[i][3].Scope = "series"
                              /\ executed[i][3].Target = col)
                      /\ (p_pc = "done" =>
                              /\ DictHas(DictGet(result.result.series, col), name)
                              /\ DictGet(DictGet(result.result.series, col), name)
                                     = executed[i][2]
                              /\ (name \notin FrameNames =>
                                      ~DictHas(result.result.frame, name)))

\* C27 as stated: when the wrapped function returns, result.warnings holds
\* exactly the warnings it emitted, in emission order; when it raises (or
\* is never reached), result.warnings is empty whatever was emitted.
C27_WarningsAsEmitted ==
    c_pc = "returned" =>
        /\ (c_fnrun = "return" => c_pr.warnings = c_emitted)
        /\ (c_fnrun # "return" => c_pr.warnings = <<>>)

\* C28 as stated: while neither df nor profiler (nor result) was reassigned,
\* a Report that was constructed with a result holds that result, returns
\* it from the result property, and no read calls profiler.profile.
C28_GivenResultIsKept ==
    (r_pc = "live" /\ r_given # NoneValue) =>
        /\ report.result = r_given
        /\ r_last.calls = 0
        /\ (r_last.op = "result" => r_last.res = r_given)

\* C29 as stated: html_page and save() return the page of the report's
\* present state, and an assignment of df, profiler or result leaves no
\* cached rendering behind, neither html nor html_page.
C29_PageOfPresentState ==
    (r_pc = "live" /\ report.cls = "HtmlReport") =>
        /\ (r_last.op \in {"df=", "profiler=", "result="} =>
               report.html = None /\ report.html_page = None)
        /\ (r_last.op \in {"html_page", "save"} /\ r_last.raised = None =>
               r_last.text = Page(Rendering(report)))

\* C30 as stated: the table a Report holds has passed valid_timeseries: it
\* is accepted and is its own validated form (numeric columns only, index
\* sorted).
C30_TableIsValidated ==
    r_pc = "live" =>
        /\ valid_timeseries(report.df).ok
        /\ valid_timeseries(report.df).df = report.df

====
